---- MODULE Spec2Model ----
(***************************************************************************)
(* Model of src/transaction.rs: the Transaction struct, its constructors,  *)
(* the sign / verify protocol over the bincode sign-data, and the three    *)
(* rayon batch verifiers.  The signature scheme, the hash and the spending *)
(* plan live in sibling modules (signature.rs, hash.rs, plan.rs); they are *)
(* modelled from their documented contract.                                *)
(***************************************************************************)
EXTENDS Integers, Sequences, FiniteSets, TLC

VARIABLES
    tr,            \* the transaction under test (a `let mut tr` of the tests)
    snap,          \* tr as it was when sig was last written (history)
    last,          \* the last operation applied to tr, with its arguments
    ops,           \* sign calls and field assignments since construction
    was_valid,     \* verify() of tr before the last operation (history)
    transactions,  \* the batch handed to the batch verifiers
    bops,          \* operations spent building the batch
    call,          \* the batch function being run, or "none"
    pass,          \* position of the running pass in Passes(call), 0 when idle
    nworkers,      \* number of pool threads serving the running call, 0 when idle
    todo,          \* indices of the pass not yet taken by a worker
    busy,          \* worker -> index it is evaluating, 0 when idle
    full,          \* the pass's shared "a false was found" flag
    ret            \* batch function -> << >>, or << b >> once it returned b for this batch

txvars == <<tr, snap, last, ops, was_valid>>
batchvars == <<transactions, bops, call, pass, nworkers, todo, busy, full, ret>>
vars == <<tr, snap, last, ops, was_valid, transactions, bops, call, pass, nworkers, todo, busy, full, ret>>

----------------------------------------------------------------------------
(* Bounds of the model *)

NumKeys == 2
MaxTokens == 2
MaxHash == 1
MaxDate == 1
MaxOps == 2
MaxBatch == 2
MaxBatchOps == 3
NumWorkers == 2

KeyPairs == 1..NumKeys
Amounts == 0..MaxTokens
Hashes == 0..MaxHash
Dates == 1..MaxDate

----------------------------------------------------------------------------
(* signature.rs / hash.rs: opaque primitives *)

\* KeyPairUtil::pubkey: the public half of a key pair
pubkey(keypair) == 10 * keypair

PublicKeys == {pubkey(k) : k \in KeyPairs}

\* Default::default() of PublicKey, Hash and Signature
DefaultPublicKey == 0
DefaultHash == 0
DefaultSignature == [key |-> DefaultPublicKey, msg |-> << >>]

\* KeyPair::sign: deterministic, and bound to the signer and to the message
KeyPairSign(keypair, data) == [key |-> pubkey(keypair), msg |-> data]

\* SignatureUtil::verify(&self, peer_public_key, msg)
SignatureVerify(sig, peer, data) ==
    /\ sig # DefaultSignature
    /\ sig.key = peer
    /\ sig.msg = data

----------------------------------------------------------------------------
(* plan.rs: Payment, Condition, Plan *)

Payment(tokens, to) == [tokens |-> tokens, to |-> to]

Timestamp(dt) == [kind |-> "Timestamp", v |-> dt]

SignatureCond(pk) == [kind |-> "Signature", v |-> pk]

Pay(payment) == [kind |-> "Pay", branches |-> << [pay |-> payment] >>]

Race(a, b) ==
    [kind |-> "Race",
     branches |-> << [cond |-> a[1], pay |-> a[2]], [cond |-> b[1], pay |-> b[2]] >>]

\* Plan::verify(spendable_tokens): every branch pays exactly the tokens
PlanVerify(plan, spendable) ==
    \A i \in 1..Len(plan.branches) : plan.branches[i].pay.tokens = spendable

----------------------------------------------------------------------------
(* bincode::serialize: one word per fixed-size field, enum tag first *)

SerPayment(p) == << p.tokens, p.to >>

SerCondition(c) == << (IF c.kind = "Timestamp" THEN 0 ELSE 1), c.v >>

SerPlan(plan) ==
    IF plan.kind = "Pay"
    THEN << 0 >> \o SerPayment(plan.branches[1].pay)
    ELSE << 1 >> \o SerCondition(plan.branches[1].cond) \o SerPayment(plan.branches[1].pay)
                 \o SerCondition(plan.branches[2].cond) \o SerPayment(plan.branches[2].pay)

----------------------------------------------------------------------------
(* Transaction *)

Transaction(from, plan, tokens, last_id, sig) ==
    [from |-> from, plan |-> plan, tokens |-> tokens, last_id |-> last_id, sig |-> sig]

\* a sign-data that leaves the plan out
get_sign_data_noplan(t) == << t.tokens >> \o << t.last_id >>

\* serialize(&(&self.plan, &self.tokens, &self.last_id))
get_sign_data(t) == SerPlan(t.plan) \o << t.tokens >> \o << t.last_id >>

\* self.sig = keypair.sign(&sign_data)
sign(t, keypair) == [t EXCEPT !.sig = KeyPairSign(keypair, get_sign_data(t))]

\* a verify that checks the signature and not the plan
verify_sigonly(t) == SignatureVerify(t.sig, t.from, get_sign_data(t))

\* a verify that accepts whoever signed instead of comparing with from
verify_anysigner(t) ==
    /\ SignatureVerify(t.sig, t.sig.key, get_sign_data(t))
    /\ PlanVerify(t.plan, t.tokens)

\* self.sig.verify(&self.from, &self.get_sign_data()) && self.plan.verify(self.tokens)
verify(t) ==
    /\ SignatureVerify(t.sig, t.from, get_sign_data(t))
    /\ PlanVerify(t.plan, t.tokens)

\* a constructor that forgets the tr.sign(from_keypair) call
new_unsigned(from_keypair, to, tokens, last_id) ==
    Transaction(pubkey(from_keypair), Pay(Payment(tokens, to)), tokens, last_id,
                DefaultSignature)

new(from_keypair, to, tokens, last_id) ==
    sign(Transaction(pubkey(from_keypair), Pay(Payment(tokens, to)), tokens, last_id,
                     DefaultSignature),
         from_keypair)

\* a constructor whose refund branch pays the recipient instead of the sender
new_on_date_refund_to(from_keypair, to, dt, tokens, last_id) ==
    LET from == pubkey(from_keypair)
        plan == Race(<< Timestamp(dt), Payment(tokens, to) >>,
                     << SignatureCond(from), Payment(tokens, to) >>)
    IN  sign(Transaction(from, plan, tokens, last_id, DefaultSignature), from_keypair)

new_on_date(from_keypair, to, dt, tokens, last_id) ==
    LET from == pubkey(from_keypair)
        plan == Race(<< Timestamp(dt), Payment(tokens, to) >>,
                     << SignatureCond(from), Payment(tokens, from) >>)
    IN  sign(Transaction(from, plan, tokens, last_id, DefaultSignature), from_keypair)

\* the struct literal of test_serialize_claim: all fields default, unsigned
claim0 ==
    Transaction(DefaultPublicKey, Pay(Payment(0, DefaultPublicKey)), 0, DefaultHash,
                DefaultSignature)

\* payment.to = ... / payment.tokens = ... on one branch of the plan
SetPaymentTo(t, b, to) == [t EXCEPT !.plan.branches[b].pay.to = to]

SetPaymentTokens(t, b, tokens) == [t EXCEPT !.plan.branches[b].pay.tokens = tokens]

----------------------------------------------------------------------------
(* Batch verifiers: transactions.par_iter().all(|tr| ...) *)

BatchFns == {"verify_signatures", "verify_plans", "verify_transactions"}

NoResults == [f \in BatchFns |-> << >>]

\* a passes table in which verify_transactions runs the plan pass alone
Passes_plans_only(f) ==
    CASE f = "verify_signatures" -> << "sigs" >>
      [] f = "verify_plans" -> << "plans" >>
      [] f = "verify_transactions" -> << "plans" >>

\* the passes a batch function runs, in order (verify_transactions is
\* verify_signatures(transactions) && verify_plans(transactions))
Passes(f) ==
    CASE f = "verify_signatures" -> << "sigs" >>
      [] f = "verify_plans" -> << "plans" >>
      [] f = "verify_transactions" -> << "sigs", "plans" >>

\* a plan pass whose closure accepts every plan
PassPredicate_any_plan(p, t) ==
    IF p = "sigs" THEN verify(t) ELSE TRUE

\* the closure of a pass: |tr| tr.verify()  /  |tr| tr.plan.verify(tr.tokens)
PassPredicate(p, t) ==
    IF p = "sigs" THEN verify(t) ELSE PlanVerify(t.plan, t.tokens)

\* an all() that rejects the empty sequence
PassResult_nonempty(found_false, items) == ~found_false /\ items # << >>

\* all(): true unless some worker found an item failing the closure
PassResult(found_false, items) == ~found_false

----------------------------------------------------------------------------
(* Initial state *)

Init ==
    /\ tr = claim0
    /\ snap = claim0
    /\ last = << "literal" >>
    /\ ops = 0
    /\ was_valid = FALSE
    /\ transactions = << >>
    /\ bops = 0
    /\ call = "none"
    /\ pass = 0
    /\ nworkers = 0
    /\ todo = {}
    /\ busy = [w \in 1..NumWorkers |-> 0]
    /\ full = FALSE
    /\ ret = NoResults

----------------------------------------------------------------------------
(* One transaction: construction, sign calls and field assignments *)

New ==
    \E k \in KeyPairs, to \in PublicKeys, tokens \in Amounts, l \in Hashes :
        /\ last = << "literal" >>
        /\ tr' = new(k, to, tokens, l)
        /\ snap' = tr'
        /\ last' = << "new", k, to, tokens, l >>
        /\ ops' = 0
        /\ was_valid' = FALSE
        /\ UNCHANGED batchvars

NewOnDate ==
    \E k \in KeyPairs, to \in PublicKeys, dt \in Dates, tokens \in Amounts, l \in Hashes :
        /\ last = << "literal" >>
        /\ tr' = new_on_date(k, to, dt, tokens, l)
        /\ snap' = tr'
        /\ last' = << "new_on_date", k, to, dt, tokens, l >>
        /\ ops' = 0
        /\ was_valid' = FALSE
        /\ UNCHANGED batchvars

Sign ==
    \E k \in KeyPairs :
        /\ ops < MaxOps
        /\ tr' = sign(tr, k)
        /\ snap' = tr'
        /\ last' = << "sign", k >>
        /\ ops' = ops + 1
        /\ was_valid' = verify(tr)
        /\ UNCHANGED batchvars

AssignTokens ==
    \E tokens \in Amounts :
        /\ ops < MaxOps
        /\ tr' = [tr EXCEPT !.tokens = tokens]
        /\ last' = << "tokens", tokens >>
        /\ ops' = ops + 1
        /\ was_valid' = verify(tr)
        /\ UNCHANGED << snap, batchvars >>

AssignLastId ==
    \E l \in Hashes :
        /\ ops < MaxOps
        /\ tr' = [tr EXCEPT !.last_id = l]
        /\ last' = << "last_id", l >>
        /\ ops' = ops + 1
        /\ was_valid' = verify(tr)
        /\ UNCHANGED << snap, batchvars >>

AssignPaymentTo ==
    \E b \in 1..Len(tr.plan.branches), to \in PublicKeys :
        /\ ops < MaxOps
        /\ tr' = SetPaymentTo(tr, b, to)
        /\ last' = << "plan", b >>
        /\ ops' = ops + 1
        /\ was_valid' = verify(tr)
        /\ UNCHANGED << snap, batchvars >>

AssignPaymentTokens ==
    \E b \in 1..Len(tr.plan.branches), tokens \in Amounts :
        /\ ops < MaxOps
        /\ tr' = SetPaymentTokens(tr, b, tokens)
        /\ last' = << "plan", b >>
        /\ ops' = ops + 1
        /\ was_valid' = verify(tr)
        /\ UNCHANGED << snap, batchvars >>

NextTx ==
    \/ New
    \/ NewOnDate
    \/ Sign
    \/ AssignTokens
    \/ AssignLastId
    \/ AssignPaymentTo
    \/ AssignPaymentTokens

SpecTx == Init /\ [][NextTx]_vars

----------------------------------------------------------------------------
(* Building a batch (test_verify_transactions), and tampering with it *)

Idle == call = "none"

\* the sender of every transaction of the batch
alice_keypair == 1

\* let tr = Transaction::new(&alice_keypair, to, 1, last_id), pushed on the batch
Push ==
    \E to \in PublicKeys :
        /\ Idle
        /\ bops < MaxBatchOps
        /\ Len(transactions) < MaxBatch
        /\ transactions' = Append(transactions, new(alice_keypair, to, 1, DefaultHash))
        /\ bops' = bops + 1
        /\ ret' = NoResults
        /\ UNCHANGED << txvars, call, pass, nworkers, todo, busy, full >>

SwapPayee ==
    \E i \in 1..Len(transactions), to \in PublicKeys :
        /\ Idle
        /\ bops < MaxBatchOps
        /\ transactions' = [transactions EXCEPT ![i] = SetPaymentTo(@, 1, to)]
        /\ bops' = bops + 1
        /\ ret' = NoResults
        /\ UNCHANGED << txvars, call, pass, nworkers, todo, busy, full >>

ChangeTokens ==
    \E i \in 1..Len(transactions), tokens \in Amounts :
        /\ Idle
        /\ bops < MaxBatchOps
        /\ transactions' = [transactions EXCEPT ![i].tokens = tokens]
        /\ bops' = bops + 1
        /\ ret' = NoResults
        /\ UNCHANGED << txvars, call, pass, nworkers, todo, busy, full >>

Resign ==
    \E i \in 1..Len(transactions), k \in KeyPairs :
        /\ Idle
        /\ bops < MaxBatchOps
        /\ transactions' = [transactions EXCEPT ![i] = sign(@, k)]
        /\ bops' = bops + 1
        /\ ret' = NoResults
        /\ UNCHANGED << txvars, call, pass, nworkers, todo, busy, full >>

----------------------------------------------------------------------------
(* Running a batch function on the thread pool *)

\* a pass declared over while a worker is still evaluating its item
PassDone_early == todo = {} \/ full

\* a pass is over when no worker is evaluating and nothing is left to take
\* (workers stop taking items once the flag is set)
PassDone == (\A w \in 1..NumWorkers : busy[w] = 0) /\ (todo = {} \/ full)

\* the i-th pass of the running call
CurrentPass == Passes(call)[pass]

\* each function is called once per batch, the composite verify_transactions
\* after the two functions it is compared with
Call ==
    \E f \in BatchFns, n \in 1..NumWorkers :
        /\ Idle
        /\ ret[f] = << >>
        /\ f = "verify_transactions" =>
              (ret["verify_signatures"] # << >> /\ ret["verify_plans"] # << >>)
        /\ call' = f
        /\ nworkers' = n
        /\ pass' = 1
        /\ todo' = 1..Len(transactions)
        /\ full' = FALSE
        /\ UNCHANGED << txvars, transactions, bops, busy, ret >>

Take ==
    \E w \in 1..nworkers, i \in todo :
        /\ ~Idle
        /\ busy[w] = 0
        /\ ~full
        /\ busy' = [busy EXCEPT ![w] = i]
        /\ todo' = todo \ {i}
        /\ UNCHANGED << txvars, transactions, bops, call, pass, nworkers, full, ret >>

Eval ==
    \E w \in 1..nworkers :
        /\ ~Idle
        /\ busy[w] # 0
        /\ full' = (full \/ ~PassPredicate(CurrentPass, transactions[busy[w]]))
        /\ busy' = [busy EXCEPT ![w] = 0]
        /\ UNCHANGED << txvars, transactions, bops, call, pass, nworkers, todo, ret >>

\* a && b: the next pass runs only if this one returned true
EndPass ==
    /\ ~Idle
    /\ PassDone
    /\ LET r == PassResult(full, transactions)
       IN  \/ /\ r
              /\ pass < Len(Passes(call))
              /\ pass' = pass + 1
              /\ todo' = 1..Len(transactions)
              /\ full' = FALSE
              /\ UNCHANGED << call, nworkers, ret >>
           \/ /\ r
              /\ pass = Len(Passes(call))
              /\ ret' = [ret EXCEPT ![call] = << TRUE >>]
              /\ call' = "none"
              /\ pass' = 0
              /\ nworkers' = 0
              /\ todo' = {}
              /\ full' = FALSE
           \/ /\ ~r
              /\ ret' = [ret EXCEPT ![call] = << FALSE >>]
              /\ call' = "none"
              /\ pass' = 0
              /\ nworkers' = 0
              /\ todo' = {}
              /\ full' = FALSE
    /\ UNCHANGED << txvars, transactions, bops, busy >>

Run == Take \/ Eval \/ EndPass

NextBatch ==
    \/ Push
    \/ SwapPayee
    \/ ChangeTokens
    \/ Resign
    \/ Call
    \/ Take
    \/ Eval
    \/ EndPass

SpecBatch == Init /\ [][NextBatch]_vars

FairSpecBatch == SpecBatch /\ WF_vars(Run)

----------------------------------------------------------------------------
(* Properties of one transaction *)

\* the signed content of a transaction
Content(t) == << t.plan, t.tokens, t.last_id >>

Constructed == last[1] \in {"literal", "new", "new_on_date"}

Assigned == last[1] \in {"tokens", "last_id", "plan"}

\* C1: the transaction returned by Transaction::new(K, R, T, L) with T > 0 has
\* from = K's public key, plan = Pay{tokens: T, to: R}, sig = K's signature over
\* its sign-data, and verify() is true; also when R is K's own public key.
C1_NewVerifies ==
    (last[1] = "new" /\ last[4] > 0) =>
        /\ verify(tr)
        /\ tr.from = pubkey(last[2])
        /\ tr.plan.kind = "Pay"
        /\ Len(tr.plan.branches) = 1
        /\ tr.plan.branches[1].pay = [tokens |-> last[4], to |-> last[3]]
        /\ tr.tokens = last[4]
        /\ tr.last_id = last[5]
        /\ tr.sig = KeyPairSign(last[2], SerPlan(tr.plan) \o << last[4], last[5] >>)

\* a positive amount paid by a key pair to its own public key
C1_Witness ==
    /\ last[1] = "new"
    /\ last[4] > 0
    /\ last[3] = pubkey(last[2])
    /\ verify(tr)

\* C2: once verify() held for the transaction as signed, any later value of
\* plan, tokens or last_id that differs from the signed one, with sig left
\* as it was, makes verify() false.
C2_TamperInvariant ==
    (verify(snap) /\ tr.sig = snap.sig /\ Content(tr) # Content(snap)) => ~verify(tr)

\* the payee inside the plan was changed after a valid signature (hijack)
C2_Witness ==
    /\ verify(snap)
    /\ Assigned
    /\ tr.plan.branches[1].pay.to # snap.plan.branches[1].pay.to
    /\ tr.tokens = snap.tokens
    /\ tr.last_id = snap.last_id
    /\ ~verify(tr)

\* C3: whenever verify() is true every branch of the plan pays exactly tokens;
\* a Pay plan whose payment differs from tokens fails verify() whatever the
\* signature.
C3_TotalPayout ==
    /\ verify(tr) =>
          /\ tr.plan.branches[1].pay.tokens = tr.tokens
          /\ tr.plan.kind = "Race" => tr.plan.branches[2].pay.tokens = tr.tokens
    /\ (tr.plan.kind = "Pay" /\ tr.plan.branches[1].pay.tokens # tr.tokens) => ~verify(tr)

\* an overspending Pay plan carrying a valid signature by its sender
C3_Witness ==
    /\ last[1] = "sign"
    /\ pubkey(last[2]) = tr.from
    /\ tr.sig = KeyPairSign(last[2], get_sign_data(tr))
    /\ tr.plan.kind = "Pay"
    /\ tr.plan.branches[1].pay.tokens > tr.tokens
    /\ ~verify(tr)

\* C7 as stated: a transaction that failed verify() passes it again only by a
\* sign call with the key pair whose public key is from.
C7_OnlySignRestores ==
    (~was_valid /\ verify(tr) /\ ~Constructed) =>
        (last[1] = "sign" /\ pubkey(last[2]) = tr.from)

\* C7 amended: over sign calls and assignments to plan, tokens and last_id, a
\* transaction that failed verify() passes it again only by a sign call with
\* the key pair whose public key is from, or by an assignment that puts plan,
\* tokens and last_id back to the values the signature in sig was computed
\* over.
C7_SignOrRestore ==
    (~was_valid /\ verify(tr) /\ ~Constructed) =>
        \/ last[1] = "sign" /\ pubkey(last[2]) = tr.from
        \/ Assigned /\ tr.sig = snap.sig /\ Content(tr) = Content(snap) /\ verify(snap)

\* an invalid transaction made valid again by sign with the matching key pair
C7_Witness ==
    /\ ~was_valid
    /\ verify(tr)
    /\ last[1] = "sign"
    /\ ops >= 2
    /\ pubkey(last[2]) = tr.from

\* C9: Transaction::new_on_date(K, R, D, T, L) returns the plan
\* Race((Timestamp(D), Payment{T, R}), (Signature(K.pubkey), Payment{T, K.pubkey}))
\* signed by K, so that verify() is true.
C9_NewOnDate ==
    last[1] = "new_on_date" =>
        /\ verify(tr)
        /\ tr.from = pubkey(last[2])
        /\ tr.plan.kind = "Race"
        /\ Len(tr.plan.branches) = 2
        /\ tr.plan.branches[1] =
              [cond |-> [kind |-> "Timestamp", v |-> last[4]],
               pay |-> [tokens |-> last[5], to |-> last[3]]]
        /\ tr.plan.branches[2] =
              [cond |-> [kind |-> "Signature", v |-> pubkey(last[2])],
               pay |-> [tokens |-> last[5], to |-> pubkey(last[2])]]
        /\ tr.tokens = last[5]
        /\ tr.last_id = last[6]
        /\ tr.sig = KeyPairSign(last[2], get_sign_data(tr))

\* a postdated transaction to somebody else than the sender
C9_Witness ==
    /\ last[1] = "new_on_date"
    /\ last[3] # pubkey(last[2])
    /\ last[5] > 0
    /\ verify(tr)

----------------------------------------------------------------------------
(* Properties of the batch verifiers *)

Returned(f) == ret[f] # << >>

Indices == 1..Len(transactions)

\* the AND of a sequence of booleans, left to right
RECURSIVE SequentialAnd(_, _)
SequentialAnd(bs, i) ==
    IF i > Len(bs) THEN TRUE
    ELSE IF ~bs[i] THEN FALSE
    ELSE SequentialAnd(bs, i + 1)

SequentialVerify ==
    SequentialAnd([i \in Indices |-> verify(transactions[i])], 1)

SequentialPlans ==
    SequentialAnd([i \in Indices |->
                      PlanVerify(transactions[i].plan, transactions[i].tokens)], 1)

\* C4: verify_transactions(batch) is true iff every transaction of the batch
\* satisfies verify(); one transaction with a swapped payee rejects the batch.
C4_AllOrNothing ==
    Returned("verify_transactions") =>
        (ret["verify_transactions"][1] = (\A i \in Indices : verify(transactions[i])))

\* two transactions of one sender, the second's payee swapped after signing
C4_Witness ==
    /\ Len(transactions) = 2
    /\ Returned("verify_transactions")
    /\ ret["verify_transactions"][1] = FALSE
    /\ verify(transactions[1])
    /\ transactions[1].from = transactions[2].from
    /\ \E to \in PublicKeys, thief \in PublicKeys :
          /\ thief # to
          /\ transactions[2] = SetPaymentTo(new(alice_keypair, to, 1, DefaultHash), 1, thief)

\* C5: verify_signatures(batch) is true iff the signature of every transaction
\* is valid for from over its sign-data, whatever the plans pay.
C5_SignaturesOnly ==
    Returned("verify_signatures") =>
        (ret["verify_signatures"][1] =
            (\A i \in Indices :
                SignatureVerify(transactions[i].sig, transactions[i].from,
                                get_sign_data(transactions[i]))))

\* C6: verify_transactions(batch) = verify_signatures(batch) && verify_plans(batch),
\* and verify_plans(batch) is true iff plan.verify(tokens) holds for every
\* transaction of the batch.
C6_Composition ==
    /\ Returned("verify_plans") =>
          (ret["verify_plans"][1] =
              (\A i \in Indices :
                  PlanVerify(transactions[i].plan, transactions[i].tokens)))
    /\ (\A f \in BatchFns : Returned(f)) =>
          (ret["verify_transactions"][1] =
              (ret["verify_signatures"][1] /\ ret["verify_plans"][1]))

\* the three functions returned on a batch whose plans are fine and one of
\* whose signatures is not
C6_Witness ==
    /\ \A f \in BatchFns : Returned(f)
    /\ Len(transactions) = 2
    /\ ret["verify_plans"][1] = TRUE
    /\ ret["verify_signatures"][1] = FALSE
    /\ ret["verify_transactions"][1] = FALSE

\* C8: whatever the number of workers, the assignment of transactions to
\* workers and the interleaving (early exit included), each batch function
\* returns the sequential AND over the batch; a running call leaves the batch
\* as it is; and every call returns.
C8_OrderIndependence ==
    /\ [](/\ Returned("verify_signatures") =>
                ret["verify_signatures"][1] = SequentialVerify
          /\ Returned("verify_plans") =>
                ret["verify_plans"][1] = SequentialPlans
          /\ Returned("verify_transactions") =>
                ret["verify_transactions"][1] =
                    (IF SequentialVerify THEN SequentialPlans ELSE FALSE))
    /\ [][~Idle => transactions' = transactions]_vars
    /\ (~Idle ~> Idle)

\* two workers at once: one has found a failing transaction while the other
\* is still evaluating its own
C8_Witness ==
    /\ ~Idle
    /\ nworkers > 1
    /\ full
    /\ \E w \in 1..nworkers : busy[w] # 0

\* C10: on the empty batch each of the three functions returns true.
C10_EmptyBatch ==
    transactions = << >> =>
        \A f \in BatchFns : Returned(f) => ret[f][1] = TRUE

\* the three functions have returned on the empty batch
C10_Witness ==
    /\ transactions = << >>
    /\ \A f \in BatchFns : ret[f] = << TRUE >>

====
